---- MODULE Spec2Model ----
(***************************************************************************)
(* Model of the Syntactix toolkit: the scanning engine (LexerBase), the    *)
(* sample ArithmeticLexer built on it, and the parsing engine (ParserBase).*)
(*                                                                         *)
(* A Python str is modelled as a sequence of one-character strings, a      *)
(* Python list as a sequence, None / a returned value / a raised exception *)
(* as a record in the variable ret (scanner) or p_ret (parser).            *)
(***************************************************************************)
EXTENDS Integers, Sequences, FiniteSets, TLC

VARIABLES
    src,        \* LexerBase.src     : the (normalized) source
    i,          \* LexerBase.i       : current offset in src
    line,       \* LexerBase.line    : current line
    line_i,     \* LexerBase.line_i  : offset from line start
    start,      \* LexerBase.start   : start of the current token
    tokens,     \* LexerBase.tokens  : tokens emitted so far
    pc,         \* control position of the scanner
    frame,      \* locals of the consume_while call in progress
    call,       \* the last scanner call: its name, arguments, pre-state
    ret,        \* the outcome of the last scanner call
    ranges,     \* history: <<start, i>> as of each add_token call
    observed,   \* whether call and ret are recorded in this run
    p_tokens,   \* ParserBase.tokens
    p_i,        \* ParserBase.i
    p_call,     \* the last parser call: its name, arguments, pre-state
    p_ret       \* the outcome of the last parser call

lexvars == <<src, i, line, line_i, start, tokens, pc, frame, call, ret, ranges,
            observed>>
parvars == <<p_tokens, p_i, p_call, p_ret>>
vars == <<src, i, line, line_i, start, tokens, pc, frame, call, ret, ranges,
          observed, p_tokens, p_i, p_call, p_ret>>

(***************************************************************************)
(* Bounds of the model.                                                    *)
(***************************************************************************)
MaxSrcLen == 2      \* longest raw source of the primitive-level scanner runs
MaxArithLen == 3    \* longest raw source scanned by the ArithmeticLexer
MaxTokens == 2      \* most tokens a primitive-level run emits
MaxLine == 1        \* most mark_next_line calls of a primitive-level run
MaxOverrun == 1     \* how far past len(src) a consume_while loop is followed
MaxCount == 2       \* largest count / offset / target argument
MaxParTokens == 3   \* longest token sequence handed to the parser
MaxPattern == 2     \* longest pattern / candidate list of a parser call
MaxDelta == 2       \* largest lookahead distance, either way

(***************************************************************************)
(* Python sequence semantics.                                              *)
(***************************************************************************)
Min(a, b) == IF a <= b THEN a ELSE b
Max(a, b) == IF a >= b THEN a ELSE b

SeqsUpTo(S, n) == UNION {[1..k -> S] : k \in 0..n}

\* a slice bound as Python normalizes it: negative counts from the end,
\* and the result is clamped to 0..len
SliceBound(s, k) == IF k < 0 THEN Max(Len(s) + k, 0) ELSE Min(k, Len(s))

\* s[a:b]
Slice(s, a, b) ==
    LET lo == SliceBound(s, a)
        hi == SliceBound(s, b)
    IN  IF lo < hi THEN SubSeq(s, lo + 1, hi) ELSE <<>>

\* s[a:]
SliceFrom(s, a) == Slice(s, a, Len(s))

\* s[k] is defined for -len <= k < len and raises IndexError elsewhere
IndexOk(s, k) == -Len(s) <= k /\ k < Len(s)
Index(s, k) == IF k < 0 THEN s[Len(s) + k + 1] ELSE s[k + 1]

\* s.startswith(p)
StartsWith(s, p) == Len(p) <= Len(s) /\ SubSeq(s, 1, Len(p)) = p

(***************************************************************************)
(* Positions, values and results.                                          *)
(***************************************************************************)
TokenPos(l, c, p) == [line |-> l, char |-> c, pos |-> p]

NoPos == TokenPos(-1, -1, -1)

\* a token value: the lexeme (a str) or a decoded float
StrValue(s) == [kind |-> "str", s |-> s, int |-> 0, frac |-> <<>>]
FloatValue(n, f) == [kind |-> "float", s |-> <<>>, int |-> n, frac |-> f]

\* the sentinel default of add_token's value parameter
sentinel == [kind |-> "sentinel", s |-> <<>>, int |-> 0, frac |-> <<>>]

\* outcomes of a scanner call
NoRet == [kind |-> "pending", str |-> <<>>, flag |-> FALSE, err |-> "",
          pos |-> NoPos, count |-> 0, strings |-> <<>>, char |-> ""]
RetNone == [NoRet EXCEPT !.kind = "None"]
RetStr(s) == [NoRet EXCEPT !.kind = "str", !.str = s]
RetBool(b) == [NoRet EXCEPT !.kind = "bool", !.flag = b]
RetToken == [NoRet EXCEPT !.kind = "token"]
RetTokens == [NoRet EXCEPT !.kind = "tokens"]
Raised(cls) == [NoRet EXCEPT !.kind = "raise", !.err = cls]

\* the record of a scanner call: name, arguments and the cursor before it
Call(op, n, strs, flag) ==
    [op |-> op, n |-> n, strs |-> strs, flag |-> flag, i0 |-> i]

(***************************************************************************)
(* The scanner object.  Methods are operators on the record L of the       *)
(* object's fields; a method that returns or raises yields Out(L2, r):     *)
(* the fields after the call and its outcome.                              *)
(***************************************************************************)
self == [src |-> src, i |-> i, line |-> line, line_i |-> line_i,
         start |-> start, tokens |-> tokens, ranges |-> ranges]

Out(L, r) == [self |-> L, ret |-> r]

\* Python truthiness of a returned str | None
Falsy(r) == r.kind = "None" \/ (r.kind = "str" /\ r.str = <<>>)

\* text_normalizer.normalize_crlf: CRLF and lone CR become LF
RECURSIVE normalize_crlf(_)
normalize_crlf(s) ==
    IF s = <<>> THEN <<>>
    ELSE IF Head(s) = "\r"
         THEN IF Len(s) >= 2 /\ s[2] = "\n"
              THEN <<"\n">> \o normalize_crlf(SubSeq(s, 3, Len(s)))
              ELSE <<"\n">> \o normalize_crlf(Tail(s))
         ELSE <<Head(s)>> \o normalize_crlf(Tail(s))

\* LexerBase.__init__
LexerInit(raw) ==
    [src |-> normalize_crlf(raw), i |-> 0, line |-> 0, line_i |-> 0,
     start |-> 0, tokens |-> <<>>, ranges |-> <<>>]

inc_pos(L, delta) == [L EXCEPT !.i = @ + delta, !.line_i = @ + delta]

\* mark_next_line that does not reset the column
mark_next_line_keeps_column(L) == [L EXCEPT !.line = @ + 1]

mark_next_line(L) == [L EXCEPT !.line_i = 0, !.line = @ + 1]

is_at_end(L) == L.i >= Len(L.src)

not_at_end(L) == ~is_at_end(L)

pos(L) == TokenPos(L.line, L.line_i, L.i)

\* error that throws the token list away as it raises
error_clears_tokens(L, error_class, count, strings, ch) ==
    Out([L EXCEPT !.tokens = <<>>, !.ranges = <<>>],
        [Raised(error_class) EXCEPT !.pos = pos(L), !.count = count,
                                    !.strings = strings, !.char = ch])

error(L, error_class, count, strings, ch) ==
    Out(L, [Raised(error_class) EXCEPT !.pos = pos(L), !.count = count,
                                       !.strings = strings, !.char = ch])

peek(L) == IF not_at_end(L) THEN L.src[L.i + 1] ELSE ""

consume(L) ==
    IF is_at_end(L)
    THEN Out(L, RetNone)
    ELSE LET M == inc_pos(L, 1)
         IN  Out(M, RetStr(<<Index(M.src, M.i - 1)>>))

consume_or_fail(L) ==
    LET c == consume(L)
    IN  IF Falsy(c.ret)
        THEN error(c.self, "LexerConsumeFailedError", 1, <<>>, "")
        ELSE c

consume_many(L, count) ==
    IF L.i + count >= Len(L.src)
    THEN Out(L, RetNone)
    ELSE Out(inc_pos(L, count), RetStr(Slice(L.src, L.i, L.i + count)))

consume_many_or_fail(L, count) ==
    LET c == consume(L)
    IN  IF Falsy(c.ret)
        THEN error(c.self, "LexerConsumeFailedError", count, <<>>, "")
        ELSE c

string_ahead(L, string, offset) ==
    StartsWith(SliceFrom(L.src, Min(L.i + offset, Len(L.src) - 1)), string)

\* the outcome of char_ahead: a bool, or IndexError from src[ahead_pos]
char_ahead(L, ch, offset) ==
    LET ahead_pos == L.i + offset
    IN  IF ahead_pos >= Len(L.src) THEN RetBool(FALSE)
        ELSE IF ~IndexOk(L.src, ahead_pos) THEN Raised("IndexError")
        ELSE RetBool(Index(L.src, ahead_pos) = ch)

\* the for loop of match, from candidate k on
RECURSIVE match_from(_, _, _)
match_from(L, strings, k) ==
    IF k > Len(strings) THEN Out(L, RetNone)
    ELSE IF string_ahead(L, strings[k], 0)
         THEN consume_many(L, Len(strings[k]))
         ELSE match_from(L, strings, k + 1)

match(L, strings) == match_from(L, strings, 1)

\* require that reports only the first candidate when it fails
require_reports_first(L, strings) ==
    LET m == match(L, strings)
    IN  IF m.ret.kind = "None"
        THEN error(m.self, "LexerRequireFailedError", 0,
                   SubSeq(strings, 1, 1), "")
        ELSE m

require(L, strings) ==
    LET m == match(L, strings)
    IN  IF m.ret.kind = "None"
        THEN error(m.self, "LexerRequireFailedError", 0, strings, "")
        ELSE m

reset_start(L) == [L EXCEPT !.start = L.i]

\* add_token that forgets to shift the start mark
add_token_keeps_start(L, token_typ, value) ==
    LET lexeme == Slice(L.src, L.start, L.i)
        token == [type |-> token_typ,
                  lexeme |-> lexeme,
                  value |-> IF value = sentinel THEN StrValue(lexeme) ELSE value,
                  pos |-> pos(L)]
    IN  Out([L EXCEPT !.tokens = Append(@, token),
                      !.ranges = Append(@, <<L.start, L.i>>)], RetToken)

\* add_token that stores its value argument as given, the default too
add_token_value_as_given(L, token_typ, value) ==
    LET lexeme == Slice(L.src, L.start, L.i)
        token == [type |-> token_typ,
                  lexeme |-> lexeme,
                  value |-> value,
                  pos |-> pos(L)]
        M == [L EXCEPT !.tokens = Append(@, token),
                       !.ranges = Append(@, <<L.start, L.i>>)]
    IN  Out(reset_start(M), RetToken)

add_token(L, token_typ, value) ==
    LET lexeme == Slice(L.src, L.start, L.i)
        token == [type |-> token_typ,
                  lexeme |-> lexeme,
                  value |-> IF value = sentinel THEN StrValue(lexeme) ELSE value,
                  pos |-> pos(L)]
        M == [L EXCEPT !.tokens = Append(@, token),
                       !.ranges = Append(@, <<L.start, L.i>>)]
    IN  Out(reset_start(M), RetToken)

unexpected(L, ch) == error(L, "LexerUnexpectedCharError", 0, <<>>, ch)

(***************************************************************************)
(* consume_while.  The predicate argument is one of three shapes:          *)
(*   peek_in : lambda: self.peek in "<chars>"   (true of "" at end of input)*)
(*   peek_is : lambda: self.peek == "<char>"                               *)
(*   i_lt    : lambda: self.i < n                                          *)
(***************************************************************************)
PeekIn(chars) == [kind |-> "peek_in", chars |-> chars, n |-> 0]
PeekIs(c) == [kind |-> "peek_is", chars |-> {c}, n |-> 0]
ILt(n) == [kind |-> "i_lt", chars |-> {}, n |-> n]

cond(L, c) ==
    CASE c.kind = "peek_in" -> peek(L) = "" \/ peek(L) \in c.chars
      [] c.kind = "peek_is" -> peek(L) \in c.chars
      [] c.kind = "i_lt" -> L.i < c.n

\* a loop condition that leaves the not_at_end policy out
consume_while_test_cond_alone(L, c, flag) == cond(L, c)

\* the loop condition: (not_at_end <= self.not_at_end) and cond()
consume_while_test(L, c, flag) == (flag => not_at_end(L)) /\ cond(L, c)

NoFrame == [cond |-> ILt(0), not_at_end |-> FALSE, local_start |-> 0,
            caller |-> ""]

(***************************************************************************)
(* The sample ArithmeticLexer.                                             *)
(***************************************************************************)
Digits == {"0", "1", "2", "3", "4", "5", "6", "7", "8", "9"}

\* str.isnumeric() of one character
isnumeric(ch) == ch \in Digits

\* ArithmeticTokenType(ch): the enum member whose value is ch
ArithmeticTokenType(ch) ==
    CASE ch = "+" -> "PLUS"
      [] ch = "-" -> "MINUS"
      [] ch = "*" -> "MUL"
      [] ch = "/" -> "DIV"
      [] ch = "(" -> "LPAR"
      [] ch = ")" -> "RPAR"

DigitVal(d) ==
    CASE d = "0" -> 0 [] d = "1" -> 1 [] d = "2" -> 2 [] d = "3" -> 3
      [] d = "4" -> 4 [] d = "5" -> 5 [] d = "6" -> 6 [] d = "7" -> 7
      [] d = "8" -> 8 [] d = "9" -> 9

RECURSIVE DecimalVal(_)
DecimalVal(s) ==
    IF s = <<>> THEN 0
    ELSE 10 * DecimalVal(SubSeq(s, 1, Len(s) - 1)) + DigitVal(s[Len(s)])

RECURSIVE StripZeros(_)
StripZeros(s) ==
    IF s # <<>> /\ s[Len(s)] = "0"
    THEN StripZeros(SubSeq(s, 1, Len(s) - 1))
    ELSE s

Dots(s) == {k \in DOMAIN s : s[k] = "."}

\* float(s) raises ValueError unless s is digits with at most one "."
\* and at least one digit
float_ok(s) ==
    /\ \A k \in DOMAIN s : s[k] \in Digits \cup {"."}
    /\ Cardinality(Dots(s)) <= 1
    /\ \E k \in DOMAIN s : s[k] \in Digits

\* float(s): the integer part and the fraction digits, trailing zeros dropped
float(s) ==
    LET d == IF Dots(s) = {} THEN Len(s) + 1 ELSE CHOOSE k \in Dots(s) : TRUE
    IN  FloatValue(DecimalVal(SubSeq(s, 1, d - 1)),
                   StripZeros(SubSeq(s, d + 1, Len(s))))

NumberChars == Digits \cup {"."}

\* scan_char that puts a blank back after reading it
scan_char_rewinds_blank(L) ==
    LET c == consume(L)
        M == c.self
        ch == c.ret.str[1]
    IN  IF Falsy(c.ret) THEN unexpected(M, "EOF")
        ELSE IF ch \in {"(", ")", "+", "-", "/", "*"}
             THEN add_token(M, ArithmeticTokenType(ch), sentinel)
        ELSE IF isnumeric(ch)
             THEN Out(inc_pos(M, -1), NoRet)
        ELSE IF ch \in {" ", "\t"}
             THEN Out(reset_start(inc_pos(M, -1)), RetNone)
        ELSE IF ch \in {"\r", "\n"}
             THEN Out(reset_start(mark_next_line(M)), RetNone)
        ELSE unexpected(M, ch)

\* scan_char up to its return, its raise, or its call of consume_while
\* (outcome "pending": scan_number goes on when the loop has returned)
scan_char(L) ==
    LET c == consume(L)
        M == c.self
        ch == c.ret.str[1]
    IN  IF Falsy(c.ret) THEN unexpected(M, "EOF")
        ELSE IF ch \in {"(", ")", "+", "-", "/", "*"}
             THEN add_token(M, ArithmeticTokenType(ch), sentinel)
        ELSE IF isnumeric(ch)
             THEN Out(inc_pos(M, -1), NoRet)
        ELSE IF ch \in {" ", "\t"}
             THEN Out(reset_start(M), RetNone)
        ELSE IF ch \in {"\r", "\n"}
             THEN Out(reset_start(mark_next_line(M)), RetNone)
        ELSE unexpected(M, ch)

\* scan_number after its consume_while call returned number_str
scan_number(L, number_str) ==
    IF float_ok(number_str)
    THEN add_token(L, "NUMBER", float(number_str))
    ELSE Out(L, Raised("ValueError"))

(***************************************************************************)
(* Inputs of the scanner runs.                                             *)
(***************************************************************************)
RawAlphabet == {"a", "b"}
RawSources == SeqsUpTo(RawAlphabet, MaxSrcLen)
\* the prefixes of the text "abab..."
PatternSources ==
    {s \in RawSources : \A k \in 1..Len(s) : s[k] = IF k % 2 = 1 THEN "a" ELSE "b"}

Chars == {"a", "b"}
Strings == {<<"a">>, <<"b">>, <<"a", "b">>, <<>>}
Candidates == {<<<<"a">>>>, <<<<"a", "b">>>>, <<<<"b">>, <<"a">>>>,
               <<<<"a">>, <<"a", "b">>>>}
Offsets == (0 - MaxCount)..MaxCount
Counts == 0..MaxCount
Conds == {PeekIn({"a"}), PeekIs("a"), ILt(MaxCount + 1)}
TokenTypes == {"T"}
Values == {sentinel, StrValue(<<"v">>)}

ArithRawAlphabet == {"2", "3", ".", "+", " ", "@", "\r", "\n"}
Example23 == <<"2", " ", "+", " ", "3">>
ArithRawSources == SeqsUpTo(ArithRawAlphabet, MaxArithLen) \cup {Example23}

(***************************************************************************)
(* State machine of the scanner.                                           *)
(***************************************************************************)
ParserIdle ==
    /\ p_tokens = <<>>
    /\ p_i = 0
    /\ p_call = <<>>
    /\ p_ret = <<>>

Set(L) ==
    /\ src' = L.src
    /\ i' = L.i
    /\ line' = L.line
    /\ line_i' = L.line_i
    /\ start' = L.start
    /\ tokens' = L.tokens
    /\ ranges' = L.ranges

LexerStart(raw, p, obs) ==
    LET L == LexerInit(raw)
    IN  /\ src = L.src
        /\ i = L.i
        /\ line = L.line
        /\ line_i = L.line_i
        /\ start = L.start
        /\ tokens = L.tokens
        /\ ranges = L.ranges
        /\ pc = p
        /\ observed = obs
        /\ frame = NoFrame
        /\ call = [op |-> "__init__", n |-> 0, strs |-> <<>>, flag |-> FALSE,
                   i0 |-> 0]
        /\ ret = NoRet

\* a primitive called by the scanning step: it runs to its return or raise
Primitive(c, out) ==
    /\ pc = "idle"
    /\ call' = IF observed THEN c ELSE call
    /\ Set(out.self)
    /\ ret' = IF observed THEN out.ret ELSE ret
    /\ UNCHANGED <<pc, frame, observed>>
    /\ UNCHANGED parvars

Consume == Primitive(Call("consume", 0, <<>>, FALSE), consume(self))

ConsumeOrFail ==
    Primitive(Call("consume_or_fail", 0, <<>>, FALSE), consume_or_fail(self))

ConsumeMany ==
    \E count \in Counts :
        Primitive(Call("consume_many", count, <<>>, FALSE),
                  consume_many(self, count))

ConsumeManyOrFail ==
    \E count \in Counts :
        Primitive(Call("consume_many_or_fail", count, <<>>, FALSE),
                  consume_many_or_fail(self, count))

StringAhead ==
    \E string \in Strings, offset \in Offsets :
        Primitive(Call("string_ahead", offset, <<string>>, FALSE),
                  Out(self, RetBool(string_ahead(self, string, offset))))

CharAhead ==
    \E ch \in Chars, offset \in Offsets :
        Primitive(Call("char_ahead", offset, <<<<ch>>>>, FALSE),
                  Out(self, char_ahead(self, ch, offset)))

Match ==
    \E strings \in Candidates :
        Primitive(Call("match", 0, strings, FALSE), match(self, strings))

Require ==
    \E strings \in Candidates :
        Primitive(Call("require", 0, strings, FALSE), require(self, strings))

AddToken ==
    \E token_typ \in TokenTypes, value \in Values :
        /\ Len(tokens) < MaxTokens
        /\ Primitive(Call("add_token", 0, <<>>, value # sentinel),
                     add_token(self, token_typ, value))

ResetStart ==
    Primitive(Call("reset_start", 0, <<>>, FALSE),
              Out(reset_start(self), RetNone))

MarkNextLine ==
    /\ line < MaxLine
    /\ Primitive(Call("mark_next_line", 0, <<>>, FALSE),
                 Out(mark_next_line(self), RetNone))

Unexpected ==
    Primitive(Call("unexpected", 0, <<<<peek(self)>>>>, FALSE),
              unexpected(self, peek(self)))

\* consume_while is entered: local_start = self.i
ConsumeWhile ==
    \E c \in Conds, flag \in BOOLEAN :
        /\ pc = "idle"
        /\ pc' = "consume_while"
        /\ frame' = [cond |-> c, not_at_end |-> flag, local_start |-> i,
                     caller |-> "idle"]
        /\ call' = IF observed THEN Call("consume_while", 0, <<>>, flag) ELSE call
        /\ UNCHANGED <<src, i, line, line_i, start, tokens, ranges, ret, observed>>
        /\ UNCHANGED parvars

\* one evaluation of the loop condition of consume_while: the body runs
\* once more, or the call returns src[local_start:i] to its caller
ConsumeWhileLoop ==
    /\ pc = "consume_while"
    /\ IF consume_while_test(self, frame.cond, frame.not_at_end)
       THEN /\ i < Len(src) + MaxOverrun
            /\ Set(inc_pos(self, 1))
            /\ UNCHANGED <<pc, frame, call, ret>>
       ELSE /\ ret' = IF observed
                      THEN RetStr(Slice(src, frame.local_start, i))
                      ELSE ret
            /\ pc' = frame.caller
            /\ frame' = NoFrame
            /\ UNCHANGED <<src, i, line, line_i, start, tokens, ranges, call>>
    /\ UNCHANGED observed
    /\ UNCHANGED parvars

InitLexer ==
    /\ \E raw \in PatternSources : LexerStart(raw, "idle", FALSE)
    /\ ParserIdle

NextLexer ==
    \/ Consume
    \/ ConsumeOrFail
    \/ ConsumeMany
    \/ ConsumeManyOrFail
    \/ Match
    \/ Require
    \/ AddToken
    \/ ResetStart
    \/ MarkNextLine
    \/ Unexpected
    \/ ConsumeWhile
    \/ ConsumeWhileLoop

SpecLexer == InitLexer /\ [][NextLexer]_vars

\* the primitives that move the cursor or the start mark or emit a token,
\* with the arguments and the outcome of each call recorded
InitEmit ==
    /\ \E raw \in PatternSources : LexerStart(raw, "idle", TRUE)
    /\ ParserIdle

NextEmit ==
    \/ Consume
    \/ ConsumeOrFail
    \/ ConsumeMany
    \/ ConsumeManyOrFail
    \/ Match
    \/ Require
    \/ AddToken
    \/ ResetStart
    \/ Unexpected
    \/ ConsumeWhile
    \/ ConsumeWhileLoop

SpecEmit == InitEmit /\ [][NextEmit]_vars

\* the primitives that move the cursor or probe the source, with the
\* arguments and the outcome of each call recorded
InitCalls ==
    /\ \E raw \in RawSources : LexerStart(raw, "idle", TRUE)
    /\ ParserIdle

NextCalls ==
    \/ Consume
    \/ ConsumeOrFail
    \/ ConsumeMany
    \/ ConsumeManyOrFail
    \/ StringAhead
    \/ CharAhead
    \/ Match
    \/ Require
    \/ Unexpected
    \/ ConsumeWhile
    \/ ConsumeWhileLoop

SpecCalls == InitCalls /\ [][NextCalls]_vars

\* consume_while calls between consume calls; a call that has been entered
\* keeps running: its loop condition is evaluated again and again
InitWhile ==
    /\ \E raw \in RawSources : LexerStart(raw, "idle", TRUE)
    /\ ParserIdle

NextWhile ==
    \/ Consume
    \/ ConsumeWhile
    \/ ConsumeWhileLoop

SpecWhile == InitWhile /\ [][NextWhile]_vars /\ WF_vars(ConsumeWhileLoop)

(***************************************************************************)
(* scan() of the ArithmeticLexer.                                          *)
(***************************************************************************)
\* the loop of scan: return the tokens at end of input, else scan_char()
Scan ==
    /\ pc = "scan"
    /\ IF is_at_end(self)
       THEN /\ pc' = "done"
            /\ ret' = RetTokens
            /\ call' = Call("scan", 0, <<>>, FALSE)
            /\ UNCHANGED <<src, i, line, line_i, start, tokens, ranges, frame>>
       ELSE LET out == scan_char(self)
            IN  /\ Set(out.self)
                /\ ret' = out.ret
                /\ call' = Call("scan_char", 0, <<>>, FALSE)
                /\ IF out.ret.kind = "pending"
                   THEN /\ pc' = "consume_while"
                        /\ frame' = [cond |-> PeekIn(NumberChars),
                                     not_at_end |-> TRUE,
                                     local_start |-> out.self.i,
                                     caller |-> "scan_number"]
                   ELSE /\ pc' = IF out.ret.kind = "raise"
                                 THEN "raised" ELSE "scan"
                        /\ frame' = NoFrame
    /\ UNCHANGED observed
    /\ UNCHANGED parvars

ScanNumber ==
    /\ pc = "scan_number"
    /\ LET out == scan_number(self, ret.str)
       IN  /\ Set(out.self)
           /\ ret' = out.ret
           /\ pc' = IF out.ret.kind = "raise" THEN "raised" ELSE "scan"
    /\ UNCHANGED <<frame, call, observed>>
    /\ UNCHANGED parvars

InitArith ==
    /\ \E raw \in ArithRawSources : LexerStart(raw, "scan", TRUE)
    /\ ParserIdle

NextArith ==
    \/ Scan
    \/ ConsumeWhileLoop
    \/ ScanNumber

SpecArith == InitArith /\ [][NextArith]_vars

\* scan() as it runs: a call that has been entered keeps executing
SpecScan == InitArith /\ [][NextArith]_vars /\ WF_vars(NextArith)

(***************************************************************************)
(* The parser object.  Methods are operators on the record P of the        *)
(* object's fields (tokens, i); those whose name the scanner also has      *)
(* carry the prefix p_.                                                    *)
(***************************************************************************)
p_self == [tokens |-> p_tokens, i |-> p_i]

NoToken == [type |-> "", lexeme |-> <<>>, value |-> StrValue(<<>>),
            pos |-> NoPos]

\* a candidate or pattern element: a literal lexeme (a str), a type tag,
\* or a tuple of literals and tags
Lit(s) == [k |-> "str", v |-> s, items |-> <<>>]
Tag(t) == [k |-> "tag", v |-> <<t>>, items |-> <<>>]
AnyOf(items) == [k |-> "tuple", v |-> <<>>, items |-> items]

\* outcomes of a parser call
PNoRet == [kind |-> "pending", tok |-> NoToken, toks |-> <<>>, flag |-> FALSE,
           err |-> "", pos |-> NoPos, cands |-> <<>>]
PNone == [PNoRet EXCEPT !.kind = "None"]
PTok(t) == [PNoRet EXCEPT !.kind = "token", !.tok = t]
PToks(ts) == [PNoRet EXCEPT !.kind = "tokens", !.toks = ts]
PBool(b) == [PNoRet EXCEPT !.kind = "bool", !.flag = b]
PPos(ps) == [PNoRet EXCEPT !.kind = "pos", !.pos = ps]
PRaised(cls) == [PNoRet EXCEPT !.kind = "raise", !.err = cls]

PCall(op, delta, cands) ==
    [op |-> op, delta |-> delta, cands |-> cands, i0 |-> p_i]

p_inc_pos(P, delta) == [P EXCEPT !.i = @ + delta]

p_is_at_end(P) == P.i >= Len(P.tokens)

lookahead(P, delta) ==
    IF P.i + delta >= Len(P.tokens) THEN PNone
    ELSE IF ~IndexOk(P.tokens, P.i + delta) THEN PRaised("IndexError")
    ELSE PTok(Index(P.tokens, P.i + delta))

p_peek(P) == lookahead(P, 0)

p_prev(P) == lookahead(P, -1)

p_next(P) == lookahead(P, 1)

\* the pos property: the position of the token at the cursor; with none
\* there, tok is None and tok[-1] raises TypeError
p_pos(P) ==
    LET tok == p_peek(P)
    IN  IF tok.kind = "token" THEN PPos(tok.tok.pos)
        ELSE PRaised("TypeError")

\* raise error_class(pos=self.pos, **kwargs)
p_error(P, error_class, cands, token) ==
    LET at == p_pos(P)
    IN  IF at.kind = "raise" THEN at
        ELSE [PRaised(error_class) EXCEPT !.pos = at.pos, !.cands = cands,
                                          !.tok = token]

rq(t) == IF t.kind = "None" THEN PRaised("ParserInvariantError") ELSE t

peek_rq(P) == rq(p_peek(P))

prev_rq(P) == rq(p_prev(P))

next_rq(P) == rq(p_next(P))

\* consume without its end-of-tokens test
p_consume_unguarded(P) ==
    LET Q == p_inc_pos(P, 1)
    IN  Out(Q, prev_rq(Q))

p_consume(P) ==
    IF p_is_at_end(P)
    THEN Out(P, PNone)
    ELSE LET Q == p_inc_pos(P, 1)
         IN  Out(Q, prev_rq(Q))

\* whether candidate t_type fits the token: a str by lexeme, else by type
fits(token, t_type) ==
    IF t_type.k = "str"
    THEN token.lexeme = t_type.v
    ELSE <<token.type>> = t_type.v

\* the for loop of match, from candidate k on
RECURSIVE p_match_from(_, _, _)
p_match_from(P, types, k) ==
    IF k > Len(types) THEN Out(P, PNone)
    ELSE IF fits(peek_rq(P).tok, types[k]) THEN p_consume(P)
    ELSE p_match_from(P, types, k + 1)

\* match that takes the token at the cursor whatever the candidates
p_match_any(P, types) ==
    IF p_is_at_end(P) THEN Out(P, PNone) ELSE p_consume(P)

p_match(P, types) ==
    IF p_is_at_end(P) THEN Out(P, PNone) ELSE p_match_from(P, types, 1)

\* one element of the all(...) of pattern_ahead
pattern_item_fits(token, pattern_item) ==
    IF pattern_item.k = "str" THEN token.lexeme = pattern_item.v
    ELSE IF pattern_item.k = "tuple"
         THEN \E n \in DOMAIN pattern_item.items :
                  fits(token, pattern_item.items[n])
         ELSE <<token.type>> = pattern_item.v

pattern_ahead(P, pattern) ==
    IF P.i + Len(pattern) >= Len(P.tokens) THEN FALSE
    ELSE \A n \in DOMAIN pattern :
             pattern_item_fits(Index(P.tokens, P.i + n - 1), pattern[n])

\* match_pattern that steps over one token, whatever the pattern's length
match_pattern_steps_one(P, pattern) ==
    IF ~pattern_ahead(P, pattern) THEN Out(P, PNone)
    ELSE Out(p_inc_pos(P, 1),
             PToks(Slice(P.tokens, P.i, P.i + Len(pattern))))

match_pattern(P, pattern) ==
    IF ~pattern_ahead(P, pattern) THEN Out(P, PNone)
    ELSE Out(p_inc_pos(P, Len(pattern)),
             PToks(Slice(P.tokens, P.i, P.i + Len(pattern))))

p_require(P, types) ==
    LET m == p_match(P, types)
    IN  IF m.ret.kind = "None"
        THEN Out(m.self, p_error(m.self, "ParserRequireFailedError", types,
                                 NoToken))
        ELSE m

p_unexpected(P, token) ==
    Out(P, p_error(P, "ParserUnexpectedTokenError", <<>>, token))

(***************************************************************************)
(* Inputs of the parser runs: token sequences as the scanner emits them    *)
(* for sources of one-character tokens, token k ending at offset k.        *)
(***************************************************************************)
TokenKinds == {<<"LPAR", "(">>, <<"NUMBER", "1">>}

MakeToken(kind, k) ==
    [type |-> kind[1], lexeme |-> <<kind[2]>>,
     value |-> IF kind[1] = "NUMBER" THEN float(<<kind[2]>>)
               ELSE StrValue(<<kind[2]>>),
     pos |-> TokenPos(0, k, k)]

TokenSeqs ==
    {[k \in DOMAIN ks |-> MakeToken(ks[k], k)] :
        ks \in SeqsUpTo(TokenKinds, MaxParTokens)}

CandidateAtoms == {Lit(<<"(">>), Lit(<<")">>), Tag("NUMBER")}
\* candidate lists without a repeated candidate
CandidateLists ==
    {c \in SeqsUpTo(CandidateAtoms, MaxPattern) :
        \A m, n \in DOMAIN c : m # n => c[m] # c[n]}
PatternItems == {Lit(<<"(">>), Tag("NUMBER"),
                 AnyOf(<<Lit(<<")">>), Tag("NUMBER")>>)}
Patterns == SeqsUpTo(PatternItems, MaxPattern)
Deltas == (0 - MaxDelta)..MaxDelta

(***************************************************************************)
(* State machine of the parser.                                            *)
(***************************************************************************)
LexerIdle == LexerStart(<<>>, "idle", FALSE)

\* a primitive called by a grammar rule: it runs to its return or raise
ParserPrimitive(c, out) ==
    /\ p_call' = c
    /\ p_i' = out.self.i
    /\ p_tokens' = out.self.tokens
    /\ p_ret' = out.ret
    /\ UNCHANGED lexvars

Lookahead ==
    \E delta \in Deltas :
        ParserPrimitive(PCall("lookahead", delta, <<>>),
                        Out(p_self, lookahead(p_self, delta)))

PeekRq == ParserPrimitive(PCall("peek_rq", 0, <<>>), Out(p_self, peek_rq(p_self)))

PrevRq == ParserPrimitive(PCall("prev_rq", -1, <<>>), Out(p_self, prev_rq(p_self)))

NextRq == ParserPrimitive(PCall("next_rq", 1, <<>>), Out(p_self, next_rq(p_self)))

ParserConsume == ParserPrimitive(PCall("consume", 0, <<>>), p_consume(p_self))

ParserMatch ==
    \E types \in CandidateLists :
        ParserPrimitive(PCall("match", 0, types), p_match(p_self, types))

ParserRequire ==
    \E types \in CandidateLists :
        ParserPrimitive(PCall("require", 0, types), p_require(p_self, types))

PatternAhead ==
    \E pattern \in Patterns :
        ParserPrimitive(PCall("pattern_ahead", 0, pattern),
                        Out(p_self, PBool(pattern_ahead(p_self, pattern))))

MatchPattern ==
    \E pattern \in Patterns :
        ParserPrimitive(PCall("match_pattern", 0, pattern),
                        match_pattern(p_self, pattern))

ParserUnexpected ==
    /\ ~p_is_at_end(p_self)
    /\ ParserPrimitive(PCall("unexpected", 0, <<>>),
                       p_unexpected(p_self, peek_rq(p_self).tok))

\* ParserBase.__init__
InitParser ==
    /\ p_tokens \in TokenSeqs
    /\ p_i = 0
    /\ p_call = [op |-> "__init__", delta |-> 0, cands |-> <<>>, i0 |-> 0]
    /\ p_ret = PNoRet
    /\ LexerIdle

NextParser ==
    \/ Lookahead
    \/ PeekRq
    \/ PrevRq
    \/ NextRq
    \/ ParserConsume
    \/ ParserMatch
    \/ ParserRequire
    \/ PatternAhead
    \/ MatchPattern
    \/ ParserUnexpected

SpecParser == InitParser /\ [][NextParser]_vars

(***************************************************************************)
(* A scanner and a parser side by side: the require of each, and the       *)
(* consume that moves each cursor.                                         *)
(***************************************************************************)
InitRequire ==
    /\ \E raw \in PatternSources : LexerStart(raw, "idle", TRUE)
    /\ p_tokens \in TokenSeqs
    /\ p_i = 0
    /\ p_call = [op |-> "__init__", delta |-> 0, cands |-> <<>>, i0 |-> 0]
    /\ p_ret = PNoRet

NextRequire ==
    \/ Consume
    \/ Require
    \/ ParserConsume
    \/ ParserRequire

SpecRequire == InitRequire /\ [][NextRequire]_vars

(***************************************************************************)
(* Properties.                                                             *)
(***************************************************************************)

\* C1: between scanner primitive calls, start <= i <= len(src).
C1_CursorInvariant ==
    pc = "idle" => (start <= i /\ i <= Len(src))

\* C2: each token's recorded offset is strictly greater than that of the
\* token before it, and the ranges [start, i) captured by successive
\* add_token calls do not overlap.
C2_StrictlyIncreasing ==
    \A k \in 2..Len(tokens) :
        /\ tokens[k].pos.pos > tokens[k - 1].pos.pos
        /\ ranges[k - 1][2] <= ranges[k][1]

\* C2 (amended): each token's recorded offset is at least that of the token
\* before it, and strictly greater when its own lexeme is not empty; the
\* captured ranges do not overlap.
C2_NonDecreasing ==
    \A k \in 2..Len(tokens) :
        /\ tokens[k].pos.pos >= tokens[k - 1].pos.pos
        /\ tokens[k].lexeme # <<>> => tokens[k].pos.pos > tokens[k - 1].pos.pos
        /\ ranges[k - 1][1] <= ranges[k - 1][2]
        /\ ranges[k - 1][2] <= ranges[k][1]
        /\ ranges[k][1] <= ranges[k][2]

\* two tokens with a lexeme each have been emitted, the later further on
C2_Witness ==
    /\ Len(tokens) = 2
    /\ tokens[1].lexeme # <<>>
    /\ tokens[2].lexeme # <<>>
    /\ tokens[2].pos.pos > tokens[1].pos.pos

\* C3: every token of the ArithmeticLexer records the offset of the first
\* character of its lexeme; "2 + 3" gives NUMBER "2", PLUS "+", NUMBER "3"
\* at offsets 0, 2, 4.
C3_TokenOffsetIsLexemeStart ==
    /\ \A k \in DOMAIN tokens : tokens[k].pos.pos = ranges[k][1]
    /\ (src = Example23 /\ pc = "done") =>
           /\ [k \in DOMAIN tokens |-> tokens[k].type]
                  = <<"NUMBER", "PLUS", "NUMBER">>
           /\ [k \in DOMAIN tokens |-> tokens[k].lexeme]
                  = <<<<"2">>, <<"+">>, <<"3">>>>
           /\ [k \in DOMAIN tokens |-> tokens[k].pos.pos] = <<0, 2, 4>>

\* C4: the Unexpected-Character error of a scanning step carries the offset,
\* line and column of the character that has no rule.
C4_UnexpectedAtTheCharacter ==
    (pc = "raised" /\ ret.err = "LexerUnexpectedCharError") =>
        /\ ret.char = src[call.i0 + 1]
        /\ ret.pos = TokenPos(line, line_i - 1, call.i0)

\* C5: require called with the cursor past the end of a non-empty token
\* sequence raises Requirement-Failed at the position of the last token,
\* and with a token at the cursor a parser error is at that token.
C5_ErrorAtARealPosition ==
    (p_call.op \in {"require", "unexpected"} /\ p_ret.kind = "raise"
        /\ p_tokens # <<>>) =>
        /\ p_ret.err \in {"ParserRequireFailedError",
                          "ParserUnexpectedTokenError"}
        /\ p_ret.pos = IF p_i < Len(p_tokens)
                       THEN p_tokens[p_i + 1].pos
                       ELSE p_tokens[Len(p_tokens)].pos

\* C6: pattern_ahead leaves the cursor where it was; match_pattern moves it
\* exactly when it returns a non-empty token sequence, and then by the
\* length of the pattern.
C6_PatternFrame ==
    /\ p_call.op = "pattern_ahead" => p_i = p_call.i0
    /\ p_call.op = "match_pattern" =>
        /\ (p_i # p_call.i0) <=> (p_ret.kind = "tokens" /\ p_ret.toks # <<>>)
        /\ (p_ret.kind = "tokens" /\ p_ret.toks # <<>>) =>
               p_i = p_call.i0 + Len(p_call.cands)

\* match_pattern has matched a pattern of two elements
C6_Witness ==
    /\ p_call.op = "match_pattern"
    /\ Len(p_call.cands) = 2
    /\ p_ret.kind = "tokens"
    /\ Len(p_ret.toks) = 2
    /\ p_i = p_call.i0 + 2

\* what C7 expects of an element: a literal by lexeme, a tag by type, a
\* tuple by any of its members
ElementMatches(token, e) ==
    CASE e.k = "str" -> token.lexeme = e.v
      [] e.k = "tag" -> <<token.type>> = e.v
      [] e.k = "tuple" ->
            \E n \in DOMAIN e.items :
                IF e.items[n].k = "str"
                THEN token.lexeme = e.items[n].v
                ELSE <<token.type>> = e.items[n].v

\* C7: pattern_ahead returns true exactly when at least N tokens remain
\* and token i+k matches pattern element k for every k.
C7_PatternAheadExact ==
    p_call.op = "pattern_ahead" =>
        LET N == Len(p_call.cands)
        IN  p_ret.flag =
                (/\ p_i + N <= Len(p_tokens)
                 /\ \A k \in 1..N :
                        ElementMatches(p_tokens[p_i + k], p_call.cands[k]))

\* whether literal c lies in the source at offset at
OccursAt(c, at) == at + Len(c) <= Len(src) /\ SubSeq(src, at + 1, at + Len(c)) = c

\* C8: match consumes and returns the first candidate, in the order given,
\* that lies in the source at the cursor, also when it ends at the end of
\* input; with no such candidate it returns none and does not move.
C8_MatchFirstCandidate ==
    call.op = "match" =>
        LET found == {k \in DOMAIN call.strs : OccursAt(call.strs[k], call.i0)}
        IN  IF found # {}
            THEN LET first == call.strs[CHOOSE k \in found :
                                            \A m \in found : k <= m]
                 IN  ret = RetStr(first) /\ i = call.i0 + Len(first)
            ELSE ret = RetNone /\ i = call.i0

\* C9: string_ahead and char_ahead never raise, never move the cursor, and
\* report no match for a non-empty argument when i + offset is at or past
\* the end of the source.
C9_ProbesClampToNoMatch ==
    call.op \in {"string_ahead", "char_ahead"} =>
        /\ ret.kind = "bool"
        /\ i = call.i0
        /\ (i + call.n >= Len(src) /\ call.strs[1] # <<>>) => ~ret.flag

\* C10: lookahead(delta) returns tokens[i+delta] when 0 <= i+delta <
\* len(tokens) and none otherwise; it never raises and never moves the
\* cursor.
C10_LookaheadInRange ==
    p_call.op = "lookahead" =>
        LET k == p_i + p_call.delta
        IN  /\ p_i = p_call.i0
            /\ p_ret = IF 0 <= k /\ k < Len(p_tokens)
                       THEN PTok(p_tokens[k + 1])
                       ELSE PNone

\* C11: peek_rq, prev_rq and next_rq raise ParserInvariantError exactly when
\* the token slot at i, i-1 or i+1 does not exist, and otherwise return the
\* token in that slot; none of them moves the cursor.
C11_RequiredLookahead ==
    p_call.op \in {"peek_rq", "prev_rq", "next_rq"} =>
        LET k == p_i + p_call.delta
        IN  /\ p_i = p_call.i0
            /\ p_ret = IF 0 <= k /\ k < Len(p_tokens)
                       THEN PTok(p_tokens[k + 1])
                       ELSE PRaised("ParserInvariantError")

\* C12: a require that finds no matching candidate raises Requirement-Failed
\* carrying exactly the candidates passed to it, in the order given, and
\* leaves the cursor where it was: the scanner's at any cursor, the parser's
\* while a token is at the cursor.  With no candidate at the cursor, require
\* does raise.
C12_RequireCarriesCandidates ==
    /\ call.op = "require" =>
        /\ (\A k \in DOMAIN call.strs : ~OccursAt(call.strs[k], call.i0))
               => ret.kind = "raise"
        /\ ret.kind = "raise" =>
               /\ ret.err = "LexerRequireFailedError"
               /\ ret.strings = call.strs
               /\ i = call.i0
    /\ (p_call.op = "require" /\ p_call.i0 < Len(p_tokens)) =>
        /\ (\A k \in DOMAIN p_call.cands :
                ~ElementMatches(p_tokens[p_call.i0 + 1], p_call.cands[k]))
               => p_ret.kind = "raise"
        /\ p_ret.kind = "raise" =>
               /\ p_ret.err = "ParserRequireFailedError"
               /\ p_ret.cands = p_call.cands
               /\ p_i = p_call.i0

\* both requires have failed on a list of two candidates, after their
\* cursors had moved
C12_Witness ==
    /\ call.op = "require"
    /\ ret.kind = "raise"
    /\ Len(call.strs) = 2
    /\ call.i0 > 0
    /\ p_call.op = "require"
    /\ p_ret.kind = "raise"
    /\ p_ret.err = "ParserRequireFailedError"
    /\ Len(p_call.cands) = 2
    /\ p_call.i0 > 0

\* C13: parser match returns the token at the cursor and advances i by
\* exactly one when that token's lexeme equals a string candidate or its
\* type equals a tag candidate; with no fitting candidate, or with the
\* cursor at the end, it returns none and leaves i unchanged.
C13_ParserMatch ==
    p_call.op = "match" =>
        LET hit == /\ p_call.i0 < Len(p_tokens)
                   /\ \E k \in DOMAIN p_call.cands :
                          ElementMatches(p_tokens[p_call.i0 + 1], p_call.cands[k])
        IN  IF hit
            THEN p_ret = PTok(p_tokens[p_call.i0 + 1]) /\ p_i = p_call.i0 + 1
            ELSE p_ret = PNone /\ p_i = p_call.i0

\* match has taken a token on its second candidate, not at the first token
C13_Witness ==
    /\ p_call.op = "match"
    /\ p_call.i0 > 0
    /\ Len(p_call.cands) = 2
    /\ p_ret.kind = "token"
    /\ p_i = p_call.i0 + 1
    /\ ~ElementMatches(p_tokens[p_call.i0 + 1], p_call.cands[1])

\* C14: after any sequence of parser calls on any token sequence the cursor
\* satisfies 0 <= i <= len(tokens).
C14_ParserCursorInvariant ==
    0 <= p_i /\ p_i <= Len(p_tokens)

\* consume was called with the cursor at the end of a token sequence it had
\* walked through, and the cursor stayed there
C14_Witness ==
    /\ Len(p_tokens) >= 2
    /\ p_call.op = "consume"
    /\ p_call.i0 = Len(p_tokens)
    /\ p_ret.kind = "None"
    /\ p_i = Len(p_tokens)

\* C15: consume_many_or_fail(n) returns the n characters src[i:i+n] and
\* advances offset and column by exactly n whenever n characters remain,
\* and otherwise raises Consumption-Failed carrying count n without moving
\* the cursor (n >= 1).
C15_ConsumeManyOrFail ==
    [][(call'.op = "consume_many_or_fail" /\ call'.n >= 1) =>
          LET n == call'.n
          IN  IF i + n <= Len(src)
              THEN /\ ret' = RetStr(SubSeq(src, i + 1, i + n))
                   /\ i' = i + n
                   /\ line_i' = line_i + n
                   /\ line' = line
              ELSE /\ ret'.kind = "raise"
                   /\ ret'.err = "LexerConsumeFailedError"
                   /\ ret'.count = n
                   /\ <<i, line_i, line>>' = <<i, line_i, line>>]_vars

\* the predicate of the running consume_while call, asked at offset k
PredAt(k) == cond([self EXCEPT !.i = k], frame.cond)

\* C16, the state part: under not_at_end=True a running consume_while has
\* not moved past len(src) (it may have been entered there), and every
\* offset it has stepped over was inside the source with the predicate true
\* there.
C16_WhileInv ==
    (pc = "consume_while" /\ frame.not_at_end) =>
        /\ (i <= Len(src) \/ i = frame.local_start)
        /\ \A k \in frame.local_start..(i - 1) : k < Len(src) /\ PredAt(k)

\* C16, the step part: under not_at_end=True the loop goes on exactly while
\* the predicate holds and input remains, under not_at_end=False exactly
\* while the predicate holds (so it steps past len(src) where the other
\* policy returns); on stopping the call returns src[i0:i] and leaves i.
C16_WhileStep ==
    pc = "consume_while" =>
        LET goes_on == IF frame.not_at_end
                       THEN PredAt(i) /\ i < Len(src)
                       ELSE PredAt(i)
        IN  IF goes_on
            THEN i' = i + 1 /\ pc' = "consume_while" /\ frame' = frame
            ELSE /\ pc' = frame.caller
                 /\ i' = i
                 /\ ret' = RetStr(Slice(src, frame.local_start, i))
                 /\ frame.not_at_end =>
                        (i <= Len(src) \/ i = frame.local_start)

\* C16: consume_while with not_at_end=True stops at the first offset where
\* the predicate is false or at end of input, never moves i past len(src),
\* always terminates and returns src[i0:i]; with not_at_end=False the loop
\* condition is the predicate alone, and the two policies part where the
\* predicate still holds at end of input.
C16_ConsumeWhile ==
    /\ []C16_WhileInv
    /\ [][C16_WhileStep]_vars
    /\ (pc = "consume_while" /\ frame.not_at_end) ~> (pc = "idle")

\* consume_while(lambda: self.i < n, not_at_end=True) has run to the end of
\* "ab", where its predicate still holds, and returned "ab"
C16_Witness ==
    /\ call.op = "consume_while"
    /\ call.flag
    /\ pc = "idle"
    /\ src = <<"a", "b">>
    /\ ret = RetStr(<<"a", "b">>)
    /\ i = Len(src)

\* C17: add_token appends exactly one token whose lexeme is src[start:i] as
\* of the call and whose value is the lexeme when no value is supplied and
\* the supplied value otherwise, then sets start = i and leaves i, line and
\* column unchanged; a step of any other primitive leaves the token list
\* unchanged.
C17_AddTokenFrame ==
    [][IF call'.op = "add_token"
       THEN LET token == tokens'[Len(tokens')]
            IN  /\ Len(tokens') = Len(tokens) + 1
                /\ SubSeq(tokens', 1, Len(tokens)) = tokens
                /\ token.type \in TokenTypes
                /\ token.lexeme = Slice(src, start, i)
                /\ IF call'.flag
                   THEN token.value \in Values \ {sentinel}
                   ELSE token.value = StrValue(token.lexeme)
                /\ start' = i
                /\ <<i, line, line_i, src>>' = <<i, line, line_i, src>>
       ELSE tokens' = tokens]_vars

\* "a" was emitted with the default value and then "b" with a supplied one
C17_Witness ==
    /\ call.op = "add_token"
    /\ call.flag
    /\ Len(tokens) = 2
    /\ tokens[1].lexeme = <<"a">>
    /\ tokens[1].value = StrValue(<<"a">>)
    /\ tokens[2].lexeme = <<"b">>
    /\ tokens[2].value = StrValue(<<"v">>)
    /\ start = i

\* C18: mark_next_line sets the column to 0 and increments line by one,
\* leaving i, start and the token list unchanged; a step of any other
\* scanner primitive leaves line unchanged and advances offset and column
\* by the same amount.
C18_LineFrame ==
    [][IF MarkNextLine
       THEN /\ line_i' = 0
            /\ line' = line + 1
            /\ <<i, start, tokens, src>>' = <<i, start, tokens, src>>
       ELSE /\ line' = line
            /\ i' - i = line_i' - line_i]_vars

\* a line was marked after the first character, and the second character
\* was consumed on the new line
C18_Witness ==
    /\ line = 1
    /\ i = 2
    /\ line_i = 1
    /\ pc = "idle"

\* C19, the state part: when scan() has raised, the token list holds one
\* token per add_token call made before the failure, in the order of the
\* calls, each with the lexeme captured by its call, all of them lying
\* before the start of the failed attempt.
C19_TokensAtFailure ==
    pc = "raised" =>
        /\ ret.kind = "raise"
        /\ Len(tokens) = Len(ranges)
        /\ \A k \in DOMAIN tokens :
               /\ tokens[k].lexeme = Slice(src, ranges[k][1], ranges[k][2])
               /\ ranges[k][2] <= start
               /\ k > 1 => ranges[k - 1][2] <= ranges[k][1]

\* C19, the step part: the token list only ever grows by one token at its
\* end, and the step of scan() that raises leaves the token list and the
\* start mark as they were and the cursor where the failed attempt had
\* brought it: one past the character scan_char consumed, or where
\* scan_number's loop stopped.
C19_RaiseStep ==
    /\ \/ tokens' = tokens
       \/ /\ Len(tokens') = Len(tokens) + 1
          /\ SubSeq(tokens', 1, Len(tokens)) = tokens
    /\ pc' = "raised" =>
        /\ tokens' = tokens
        /\ start' = start
        /\ line' = line
        /\ IF pc = "scan"
           THEN i' = i + 1 /\ line_i' = line_i + 1
           ELSE i' = i /\ line_i' = line_i

\* C19: when scan() raises, the lexer's token list still holds exactly the
\* tokens emitted before the failure, in emission order; raising changes
\* neither the token list nor the cursor.
C19_PartialOutput ==
    []C19_TokensAtFailure /\ [][C19_RaiseStep]_vars

\* scan() has raised on its third attempt, after emitting two tokens
C19_Witness ==
    /\ pc = "raised"
    /\ Len(tokens) = 2
    /\ tokens[1].lexeme # tokens[2].lexeme

\* C20, the state part: scan() returns only with the input exhausted and
\* with no token of its own (every token is the lexeme of an add_token call
\* of a scanning step, and lies inside the source); a scanning step that
\* has returned has left i strictly greater than it found it.
C20_ScanInv ==
    /\ pc = "done" =>
        /\ i >= Len(src)
        /\ ret.kind = "tokens"
        /\ Len(tokens) = Len(ranges)
        /\ \A k \in DOMAIN tokens :
               /\ ranges[k][1] < ranges[k][2]
               /\ ranges[k][2] <= Len(src)
               /\ tokens[k].lexeme = SubSeq(src, ranges[k][1] + 1, ranges[k][2])
    /\ (pc = "scan" /\ call.op = "scan_char") => i > call.i0

\* C20, the step part: the scanning step is entered only while i < len(src),
\* and the step in which scan() returns changes neither the token list nor
\* the cursor.
C20_ScanStep ==
    /\ (pc = "scan" /\ call'.op = "scan_char") => i < Len(src)
    /\ pc' = "done" =>
        /\ pc = "scan"
        /\ i >= Len(src)
        /\ <<tokens, i, line, line_i, start>>' = <<tokens, i, line, line_i, start>>

\* C20: scan() invokes the scanning step only while i < len(src), stops as
\* soon as input is exhausted and adds no end-of-input token; every
\* scanning step of the ArithmeticLexer raises or leaves i strictly greater,
\* and scan() eventually returns or raises.
C20_ScanTerminates ==
    /\ []C20_ScanInv
    /\ [][C20_ScanStep]_vars
    /\ <>(pc \in {"done", "raised"})

\* scan() has returned the three tokens of "2 + 3"
C20_Witness ==
    /\ pc = "done"
    /\ src = Example23
    /\ Len(tokens) = 3
    /\ i = Len(src)

====
